---------------------------- MODULE Spec2Model ----------------------------
(***************************************************************************)
(* Location tracking server: POST /api/location (transactional dual write  *)
(* followed by a WebSocket broadcast), the two read endpoints, and the     *)
(* WebSocket server's client set.                                          *)
(*                                                                         *)
(* Coordinates are integers counting 10^-7 degree, so that a report can    *)
(* carry one digit more than the DECIMAL(10,6) columns keep.  The clock    *)
(* ticks in seconds: NOW() in a TIMESTAMP column is the second, the        *)
(* application's Date counts milliseconds.                                 *)
(***************************************************************************)
EXTENDS Integers, Sequences, FiniteSets, TLC

\* ------------------------------------------------------------- bounds
MaxReq == 2            \* POST /api/location requests handled in a run
MaxSock == 2           \* WebSocket connections made in a run
MaxClock == 1          \* last second of the clock
MaxQueries == 1        \* GET requests handled in a run

\* -------------------------------------------------- program constants
LatMin == -900000000
LatMax == 900000000
LonMin == -1800000000
LonMax == 1800000000
MinEmployeeId == 1
DefaultLimit == 500
MaxLimit == 5000
ConnLimit == 10

Reqs == 1..MaxReq
Sockets == 1..MaxSock
Employees == {1, 2}
NoReq == 0
NoResponse == 0

VARIABLES
    now,                        \* the clock, in seconds
    pc,                         \* pc[r]: where handler r of POST /api/location stands
    body,                       \* body[r]: req.body of request r
    resp,                       \* resp[r]: the status handler r answered with, or NoResponse
    failedAt,                   \* failedAt[r]: the step of r that threw ("none" if none did)
    startedAfter,               \* startedAfter[r]: the requests answered 200 when r arrived
    noTable,                    \* requests a statement of which found its table missing
    held,                       \* requests holding a pool connection
    released,                   \* released[r]: times r called conn.release()
    tx,                         \* tx[r]: the open transaction of r's connection
    lock,                       \* lock[e]: the transaction holding the lock on uniq_emp = e
    employee_live_location,     \* committed rows of the table
    employee_location_history,  \* committed rows of the table
    nextHistoryId,              \* AUTO_INCREMENT of employee_location_history
    commitOrder,                \* the requests whose COMMIT the server applied, in order
    clients,                    \* wss.clients, in insertion order
    sock,                       \* sock[s]: "new", "open", "broken" or "closed"
    inbox,                      \* inbox[s]: the messages sent to socket s, in order
    published,                  \* the calls of broadcast, in order: the payload, the
                                \* clients at the call (targets), those of them whose
                                \* connection was broken, and those send was called on
    sendFailed,                 \* sockets on which a send has thrown
    histResp,                   \* the last answer of GET /api/locations/:employee_id/history
    listResp,                   \* the last answer of GET /api/locations
    queries,                    \* GET requests handled so far
    schemaPc,                   \* where ensureSchema (called by the listen callback) stands
    tables,                     \* the tables and views that exist in the database
    schemaHeld,                 \* ensureSchema holds a pool connection
    schemaReleased              \* times ensureSchema called conn.release()

vars == <<now, pc, body, resp, failedAt, held, released, tx, lock,
          employee_live_location, employee_location_history, nextHistoryId,
          commitOrder, clients, sock, inbox, published, sendFailed,
          histResp, listResp, queries, startedAfter, noTable,
          schemaPc, tables, schemaHeld, schemaReleased>>

reqVars == <<pc, body, resp, failedAt, startedAfter, noTable>>
poolVars == <<held, released>>
dbVars == <<tx, lock, employee_live_location, employee_location_history,
            nextHistoryId, commitOrder>>
wsVars == <<clients, sock, inbox, published, sendFailed>>
queryVars == <<histResp, listResp, queries>>
schemaVars == <<schemaPc, tables, schemaHeld, schemaReleased>>

\* ------------------------------------------------------------ inputs
ValidBodies ==
    { [employee_id |-> e, latitude |-> 129716004, longitude |-> 775946000,
       gps_status |-> g] : e \in Employees, g \in {"on", "off"} }

InvalidBodies ==
    { [employee_id |-> 0, latitude |-> 129716004, longitude |-> 775946000, gps_status |-> "on"],
      [employee_id |-> 1, latitude |-> 900000001, longitude |-> 775946000, gps_status |-> "on"],
      [employee_id |-> 1, latitude |-> -900000001, longitude |-> 775946000, gps_status |-> "on"],
      [employee_id |-> 1, latitude |-> 129716004, longitude |-> 1800000001, gps_status |-> "on"],
      [employee_id |-> 1, latitude |-> 129716004, longitude |-> -1800000001, gps_status |-> "on"],
      [employee_id |-> 1, latitude |-> 129716004, longitude |-> 775946000, gps_status |-> "idle"] }

Bodies == ValidBodies \cup InvalidBodies
NoBody == [employee_id |-> 0, latitude |-> 0, longitude |-> 0, gps_status |-> ""]

\* ------------------------------------------------------- validation
\* locationSchema.validate(req.body): TRUE when Joi reports no error.
locationSchema_noLatitude(b) ==
    /\ b.employee_id >= MinEmployeeId
    /\ b.longitude >= LonMin /\ b.longitude <= LonMax
    /\ b.gps_status \in {"on", "off"}

locationSchema(b) ==
    /\ b.employee_id >= MinEmployeeId
    /\ b.latitude >= LatMin /\ b.latitude <= LatMax
    /\ b.longitude >= LonMin /\ b.longitude <= LonMax
    /\ b.gps_status \in {"on", "off"}

\* ------------------------------------------------------------ clock
\* NOW() stored in a TIMESTAMP column: whole seconds.
NOW == now
\* new Date() and Date.now(): milliseconds.
DateNow == now * 1000

\* A number stored in a DECIMAL(10,6) column: rounded half away from zero
\* to 10^-6 degree (the result counts 10^-6 degree).
Decimal6(x) ==
    IF x >= 0 THEN (x + 5) \div 10 ELSE -((-x + 5) \div 10)

\* ------------------------------------------------------------ tables
\* The tables and the view ensureSchema creates.
Tables == {"employee_live_location", "employee_location_history", "v_employee_latest"}

NoTx == [active |-> FALSE, live |-> {}, hist |-> {}]

\* INSERT ... without ON DUPLICATE KEY UPDATE.
PlainInsert(table, row) == table \cup {row}

\* The upsert on a table without the unique key uniq_emp: every statement
\* adds a row.
UpsertRow_noKey(table, row) == table \cup {row}

\* INSERT ... ON DUPLICATE KEY UPDATE on the unique key uniq_emp (employee_id).
UpsertRow(table, row) ==
    IF \E old \in table : old.employee_id = row.employee_id
    THEN { old \in table : old.employee_id # row.employee_id } \cup {row}
    ELSE table \cup {row}

RECURSIVE UpsertAll(_, _)
UpsertAll(table, rows) ==
    IF rows = {} THEN table
    ELSE LET row == CHOOSE x \in rows : TRUE
         IN UpsertAll(UpsertRow(table, row), rows \ {row})

LiveRow(r, b) ==
    [employee_id |-> b.employee_id, latitude |-> Decimal6(b.latitude),
     longitude |-> Decimal6(b.longitude), gps_status |-> b.gps_status,
     last_update |-> NOW, req |-> r]

HistoryRow(r, b) ==
    [id |-> nextHistoryId, employee_id |-> b.employee_id,
     latitude |-> Decimal6(b.latitude), longitude |-> Decimal6(b.longitude),
     gps_status |-> b.gps_status, recorded_at |-> NOW, req |-> r]

\* ------------------------------------------------------------- init
\* The state of the requests, the pool's use by them, the rows and the
\* observers when the process starts.
InitServer ==
    /\ now = 0
    /\ pc = [r \in Reqs |-> "idle"]
    /\ body = [r \in Reqs |-> NoBody]
    /\ resp = [r \in Reqs |-> NoResponse]
    /\ failedAt = [r \in Reqs |-> "none"]
    /\ held = {}
    /\ released = [r \in Reqs |-> 0]
    /\ tx = [r \in Reqs |-> NoTx]
    /\ lock = [e \in Employees |-> NoReq]
    /\ employee_live_location = {}
    /\ employee_location_history = {}
    /\ nextHistoryId = 1
    /\ commitOrder = <<>>
    /\ clients = <<>>
    /\ sock = [s \in Sockets |-> "new"]
    /\ inbox = [s \in Sockets |-> <<>>]
    /\ published = <<>>
    /\ sendFailed = {}
    /\ histResp = [status |-> NoResponse, queried |-> FALSE, param |-> [k |-> "absent", v |-> 0],
                   limitParam |-> [k |-> "absent", v |-> 0],
                   limit |-> [k |-> "nan", v |-> 0], rows |-> <<>>]
    /\ listResp = [status |-> NoResponse, rows |-> {}]
    /\ queries = 0
    /\ startedAfter = [r \in Reqs |-> {}]
    /\ noTable = {}

\* The server once ensureSchema has returned: it took one connection, gave
\* it back, and the tables and the view exist.
Init ==
    /\ InitServer
    /\ schemaPc = "done"
    /\ tables = Tables
    /\ schemaHeld = FALSE
    /\ schemaReleased = 1

\* The server when app.listen calls its callback: the port is open and
\* ensureSchema is about to be called, on a database that is new or that an
\* earlier run has initialised.
InitListen ==
    /\ InitServer
    /\ schemaPc = "getConnection"
    /\ tables \in {{}, Tables}
    /\ schemaHeld = FALSE
    /\ schemaReleased = 0

\* ------------------------------------------------- POST /api/location
ReleaseLocks(r) == [e \in Employees |-> IF lock[e] = r THEN NoReq ELSE lock[e]]

\* The writes of r's transaction as the server applies them on COMMIT.
CommittedLive(r) == UpsertAll(employee_live_location, tx[r].live)
\* The history insert under a unique key on the values of a record: a record
\* equal to a stored one is dropped.
CommittedHistory_dedup(r) ==
    employee_location_history \cup
        { h \in tx[r].hist :
            ~\E old \in employee_location_history :
                /\ old.employee_id = h.employee_id /\ old.latitude = h.latitude
                /\ old.longitude = h.longitude /\ old.gps_status = h.gps_status
                /\ old.recorded_at = h.recorded_at }

CommittedHistory(r) == employee_location_history \cup tx[r].hist

\* The connections of the pool that are checked out.
CheckedOut == Cardinality(held) + (IF schemaHeld THEN 1 ELSE 0)

\* Lines 135-141: the request arrives, the body is validated, and the handler
\* either answers 400 or suspends in pool.getConnection().
PostLocation(r, b) ==
    /\ pc[r] = "idle"
    /\ IF r = 1 THEN TRUE ELSE pc[r - 1] # "idle"
    /\ body' = [body EXCEPT ![r] = b]
    /\ startedAfter' = [startedAfter EXCEPT ![r] = { x \in Reqs : resp[x] = 200 }]
    /\ IF locationSchema(b)
       THEN /\ pc' = [pc EXCEPT ![r] = "getConnection"]
            /\ resp' = resp
       ELSE /\ pc' = [pc EXCEPT ![r] = "done"]
            /\ resp' = [resp EXCEPT ![r] = 400]
    /\ UNCHANGED <<now, failedAt, noTable, poolVars, dbVars, wsVars, queryVars, schemaVars>>

\* Line 141: the pool hands out a connection (waitForConnections: the
\* request waits while connectionLimit connections are checked out).
GetConnection(r) ==
    /\ pc[r] = "getConnection"
    /\ CheckedOut < ConnLimit
    /\ held' = held \cup {r}
    /\ pc' = [pc EXCEPT ![r] = "beginTransaction"]
    /\ UNCHANGED <<now, body, startedAfter, noTable, resp, failedAt, released, dbVars, wsVars, queryVars, schemaVars>>

\* Line 141 rejects: the await is outside the try block, so the handler's
\* promise rejects and the handler sends no response.
GetConnectionFail(r) ==
    /\ pc[r] = "getConnection"
    /\ pc' = [pc EXCEPT ![r] = "rejected"]
    /\ failedAt' = [failedAt EXCEPT ![r] = "getConnection"]
    /\ UNCHANGED <<now, body, startedAfter, noTable, resp, poolVars, dbVars, wsVars, queryVars, schemaVars>>

\* Line 143.  beginTransaction sent without opening a transaction (autocommit).
BeginTransaction_autocommit(r) ==
    /\ pc[r] = "beginTransaction"
    /\ pc' = [pc EXCEPT ![r] = "upsert"]
    /\ UNCHANGED <<now, body, startedAfter, noTable, resp, failedAt, poolVars, dbVars, wsVars, queryVars, schemaVars>>

BeginTransaction(r) ==
    /\ pc[r] = "beginTransaction"
    /\ tx' = [tx EXCEPT ![r] = [NoTx EXCEPT !.active = TRUE]]
    /\ pc' = [pc EXCEPT ![r] = "upsert"]
    /\ UNCHANGED <<now, body, startedAfter, noTable, resp, failedAt, poolVars, lock, employee_live_location,
                   employee_location_history, nextHistoryId, commitOrder, wsVars,
                   queryVars, schemaVars>>

\* A statement of the try block (lines 143-160) throws: control passes to the
\* catch block, which first awaits conn.rollback().
Throw(r, step) ==
    /\ pc[r] = step
    /\ pc' = [pc EXCEPT ![r] = "rollback"]
    /\ failedAt' = [failedAt EXCEPT ![r] = step]

BeginTransactionFail(r) ==
    /\ Throw(r, "beginTransaction")
    /\ UNCHANGED <<now, body, startedAfter, noTable, resp, poolVars, dbVars, wsVars, queryVars, schemaVars>>

\* Lines 146-151: the upsert waits for the lock on the unique key; in a
\* transaction the row stays invisible to others until COMMIT, outside one
\* (autocommit) the statement commits by itself.
UpsertLive(r) ==
    /\ pc[r] = "upsert"
    /\ "employee_live_location" \in tables
    /\ lock[body[r].employee_id] \in {NoReq, r}
    /\ IF tx[r].active
       THEN /\ tx' = [tx EXCEPT ![r].live = UpsertRow(@, LiveRow(r, body[r]))]
            /\ lock' = [lock EXCEPT ![body[r].employee_id] = r]
            /\ UNCHANGED employee_live_location
       ELSE /\ employee_live_location' =
                   UpsertRow(employee_live_location, LiveRow(r, body[r]))
            /\ UNCHANGED <<tx, lock>>
    /\ pc' = [pc EXCEPT ![r] = "insert"]
    /\ UNCHANGED <<now, body, startedAfter, noTable, resp, failedAt, poolVars, employee_location_history,
                   nextHistoryId, commitOrder, wsVars, queryVars, schemaVars>>

UpsertLiveFail(r) ==
    /\ Throw(r, "upsert")
    /\ UNCHANGED <<now, body, startedAfter, noTable, resp, poolVars, dbVars, wsVars, queryVars, schemaVars>>

\* Lines 154-158: the history insert; AUTO_INCREMENT is taken at the statement.
InsertHistory(r) ==
    /\ pc[r] = "insert"
    /\ "employee_location_history" \in tables
    /\ IF tx[r].active
       THEN /\ tx' = [tx EXCEPT ![r].hist = PlainInsert(@, HistoryRow(r, body[r]))]
            /\ UNCHANGED employee_location_history
       ELSE /\ employee_location_history' =
                   PlainInsert(employee_location_history, HistoryRow(r, body[r]))
            /\ UNCHANGED tx
    /\ nextHistoryId' = nextHistoryId + 1
    /\ pc' = [pc EXCEPT ![r] = "commit"]
    /\ UNCHANGED <<now, body, startedAfter, noTable, resp, failedAt, poolVars, lock, employee_live_location,
                   commitOrder, wsVars, queryVars, schemaVars>>

InsertHistoryFail(r) ==
    /\ Throw(r, "insert")
    /\ UNCHANGED <<now, body, startedAfter, noTable, resp, poolVars, dbVars, wsVars, queryVars, schemaVars>>

\* The server applies COMMIT: both writes become visible, the locks go.
ApplyCommit(r) ==
    /\ employee_live_location' = CommittedLive(r)
    /\ employee_location_history' = CommittedHistory(r)
    /\ lock' = ReleaseLocks(r)
    /\ tx' = [tx EXCEPT ![r] = NoTx]
    /\ commitOrder' = IF tx[r].active THEN Append(commitOrder, r) ELSE commitOrder

\* Line 160.
Commit(r) ==
    /\ pc[r] = "commit"
    /\ ApplyCommit(r)
    /\ pc' = [pc EXCEPT ![r] = "respond"]
    /\ UNCHANGED <<now, body, startedAfter, noTable, resp, failedAt, poolVars, nextHistoryId, wsVars, queryVars, schemaVars>>

\* Line 160 throws and the exception is dropped: the handler goes on as after
\* a commit.
CommitFail_ignored(r) ==
    /\ pc[r] = "commit"
    /\ pc' = [pc EXCEPT ![r] = "respond"]
    /\ failedAt' = [failedAt EXCEPT ![r] = "commit"]
    /\ UNCHANGED <<now, body, startedAfter, noTable, resp, poolVars, dbVars, wsVars, queryVars, schemaVars>>

\* Line 160 throws: the server refused the COMMIT, or applied it and the
\* answer was lost with the connection.
CommitFail(r) ==
    /\ Throw(r, "commit")
    /\ \/ ApplyCommit(r)
       \/ UNCHANGED <<tx, lock, employee_live_location, employee_location_history,
                      commitOrder>>
    /\ UNCHANGED <<now, body, startedAfter, noTable, resp, poolVars, nextHistoryId, wsVars, queryVars, schemaVars>>

\* ------------------------------------------------------------ broadcast
NoPayload ==
    [employee_id |-> 0, latitude |-> 0, longitude |-> 0, gps_status |-> "",
     last_update |-> 0, req |-> NoReq]

\* Lines 162-168: the payload is built from the request's values and the
\* application clock.
Payload(r) ==
    [employee_id |-> body[r].employee_id, latitude |-> body[r].latitude,
     longitude |-> body[r].longitude, gps_status |-> body[r].gps_status,
     last_update |-> DateNow, req |-> r]

\* Line 268.
LocationMsg(p) == [type |-> "location", ts |-> 0, payload |-> p]
\* Line 263.
HelloMsg == [type |-> "hello", ts |-> DateNow, payload |-> NoPayload]

\* c.send(msg) put in front of what the socket was sent before.
send_unshift(box, msg) == <<msg>> \o box

\* c.send(msg) on a socket that takes it: the socket's messages arrive in the
\* order of the calls.
send(box, msg) == Append(box, msg)

\* wss.clients.forEach without the try/catch around c.send: the first send
\* that throws ends the loop and the exception leaves broadcast.
RECURSIVE broadcast_noCatch(_, _, _)
broadcast_noCatch(cs, boxes, msg) ==
    IF cs = <<>>
    THEN [inbox |-> boxes, attempted |-> {}, failed |-> {}, threw |-> FALSE]
    ELSE LET c == Head(cs) IN
         IF sock[c] = "broken"
         THEN [inbox |-> boxes, attempted |-> {c}, failed |-> {c}, threw |-> TRUE]
         ELSE LET rest == broadcast_noCatch(Tail(cs),
                              [boxes EXCEPT ![c] = send(@, msg)], msg)
              IN [rest EXCEPT !.attempted = @ \cup {c}]

\* Lines 267-274: every client of wss.clients is sent msg, in insertion
\* order; a send that throws is caught and the loop goes on.
RECURSIVE broadcast(_, _, _)
broadcast(cs, boxes, msg) ==
    IF cs = <<>>
    THEN [inbox |-> boxes, attempted |-> {}, failed |-> {}, threw |-> FALSE]
    ELSE LET c == Head(cs) IN
         IF sock[c] = "broken"
         THEN LET rest == broadcast(Tail(cs), boxes, msg)
              IN [rest EXCEPT !.attempted = @ \cup {c}, !.failed = @ \cup {c}]
         ELSE LET rest == broadcast(Tail(cs), [boxes EXCEPT ![c] = send(@, msg)], msg)
              IN [rest EXCEPT !.attempted = @ \cup {c}]

Range(f) == { f[i] : i \in DOMAIN f }

\* Lines 162-173 without the call of broadcast.
Respond_noBroadcast(r) ==
    /\ pc[r] = "respond"
    /\ pc' = [pc EXCEPT ![r] = "done"]
    /\ resp' = [resp EXCEPT ![r] = 200]
    /\ held' = held \ {r}
    /\ released' = [released EXCEPT ![r] = @ + 1]
    /\ UNCHANGED <<now, body, startedAfter, noTable, failedAt, dbVars, wsVars, queryVars, schemaVars>>

\* After the commit, lines 162-173 and the finally block, which run without
\* an await between them: payload, broadcast, the 200 response, release.  An
\* exception leaving broadcast would pass control to the catch block.
Respond(r) ==
    /\ pc[r] = "respond"
    /\ LET b == broadcast(clients, inbox, LocationMsg(Payload(r))) IN
       /\ inbox' = b.inbox
       /\ sendFailed' = sendFailed \cup b.failed
       /\ published' = Append(published,
              [req |-> r, payload |-> Payload(r), targets |-> Range(clients),
               broken |-> { s \in Range(clients) : sock[s] = "broken" },
               attempted |-> b.attempted, failed |-> b.failed])
       /\ IF b.threw
          THEN /\ pc' = [pc EXCEPT ![r] = "rollback"]
               /\ failedAt' = [failedAt EXCEPT ![r] = "broadcast"]
               /\ UNCHANGED <<resp, poolVars>>
          ELSE /\ pc' = [pc EXCEPT ![r] = "done"]
               /\ resp' = [resp EXCEPT ![r] = 200]
               /\ held' = held \ {r}
               /\ released' = [released EXCEPT ![r] = @ + 1]
               /\ UNCHANGED failedAt
    /\ UNCHANGED <<now, body, startedAfter, noTable, dbVars, clients, sock, queryVars, schemaVars>>

\* The transaction of r's connection ends without a commit: its writes are
\* discarded and its locks released.
DiscardTx(r) ==
    /\ tx' = [tx EXCEPT ![r] = NoTx]
    /\ lock' = ReleaseLocks(r)
    /\ UNCHANGED <<employee_live_location, employee_location_history,
                   nextHistoryId, commitOrder>>

\* Lines 175-179: the rollback succeeds, the handler answers 500 and the
\* finally block releases the connection.
Rollback(r) ==
    /\ pc[r] = "rollback"
    /\ DiscardTx(r)
    /\ resp' = [resp EXCEPT ![r] = 500]
    /\ pc' = [pc EXCEPT ![r] = "done"]
    /\ held' = held \ {r}
    /\ released' = [released EXCEPT ![r] = @ + 1]
    /\ UNCHANGED <<now, body, startedAfter, noTable, failedAt, wsVars, queryVars, schemaVars>>

\* Line 175 throws (the connection is gone; the server discards the open
\* transaction with the session): lines 176-177 are skipped, the finally
\* block releases the connection and the handler's promise rejects.
RollbackFail(r) ==
    /\ pc[r] = "rollback"
    /\ DiscardTx(r)
    /\ pc' = [pc EXCEPT ![r] = "rejected"]
    /\ held' = held \ {r}
    /\ released' = [released EXCEPT ![r] = @ + 1]
    /\ UNCHANGED <<now, body, startedAfter, noTable, resp, failedAt, wsVars, queryVars, schemaVars>>

\* ------------------------------------------------------ WebSocket server
RECURSIVE Without(_, _)
Without(cs, s) ==
    IF cs = <<>> THEN <<>>
    ELSE IF Head(cs) = s THEN Without(Tail(cs), s)
    ELSE <<Head(cs)>> \o Without(Tail(cs), s)

\* Line 261 with an empty connection handler: the socket joins wss.clients
\* and is sent nothing.
Connect_noHello(s) ==
    /\ sock[s] = "new"
    /\ IF s = 1 THEN TRUE ELSE sock[s - 1] # "new"
    /\ clients' = Append(clients, s)
    /\ sock' = [sock EXCEPT ![s] = "open"]
    /\ UNCHANGED <<now, reqVars, poolVars, dbVars, inbox, published, sendFailed,
                   queryVars, schemaVars>>

\* Lines 261-264: a completed handshake adds the socket to wss.clients and the
\* connection handler sends the greeting.
Connect(s) ==
    /\ sock[s] = "new"
    /\ IF s = 1 THEN TRUE ELSE sock[s - 1] # "new"
    /\ clients' = Append(clients, s)
    /\ sock' = [sock EXCEPT ![s] = "open"]
    /\ inbox' = [inbox EXCEPT ![s] = send(@, HelloMsg)]
    /\ UNCHANGED <<now, reqVars, poolVars, dbVars, published, sendFailed, queryVars, schemaVars>>

\* The connection of s breaks: from now on c.send throws.
Break(s) ==
    /\ sock[s] = "open"
    /\ sock' = [sock EXCEPT ![s] = "broken"]
    /\ UNCHANGED <<now, reqVars, poolVars, dbVars, clients, inbox, published,
                   sendFailed, queryVars, schemaVars>>

\* The socket's close event: WebSocketServer removes it from wss.clients.
Close(s) ==
    /\ sock[s] \in {"open", "broken"}
    /\ sock' = [sock EXCEPT ![s] = "closed"]
    /\ clients' = Without(clients, s)
    /\ UNCHANGED <<now, reqVars, poolVars, dbVars, inbox, published, sendFailed,
                   queryVars, schemaVars>>

\* ------------------------------------------------------------- queries
\* A string of the request (a path or query parameter): absent (undefined),
\* "empty" (""), "int" (the numeral of the integer v), "half" (the numeral of
\* v + 0.5, as "2.5") or "word" (not a numeral).  A JavaScript number: "int"
\* (v), "half" (v + 0.5) or "nan".
Str(k, v) == [k |-> k, v |-> v]
Num(k, v) == [k |-> k, v |-> v]
NaN == Num("nan", 0)

IdParams == { Str("int", v) : v \in {-1, 0, 1, 2} } \cup {Str("half", 1), Str("word", 0)}
LimitParams ==
    { Str("int", v) : v \in {-1, 0, 1, 2, 5000, 5001, 999999} }
        \cup {Str("absent", 0), Str("empty", 0), Str("half", 2), Str("word", 0)}

\* Number(s)
Number(s) ==
    CASE s.k = "int" -> Num("int", s.v)
      [] s.k = "half" -> Num("half", s.v)
      [] s.k = "empty" -> Num("int", 0)
      [] OTHER -> NaN

\* The truth value of a string and of a number.
TruthyStr(s) == s.k \notin {"absent", "empty"}
TruthyNum(n) == ~(n.k = "nan" \/ (n.k = "int" /\ n.v = 0))

\* Math.min(a, b) for an integer b
MathMin(a, b) ==
    IF a.k = "nan" THEN NaN
    ELSE IF a.v < b THEN a ELSE Num("int", b)

\* Line 227: Math.min(Number(req.query.limit || 500), 5000)
historyLimit(q) ==
    MathMin(IF TruthyStr(q) THEN Number(q) ELSE Num("int", DefaultLimit), MaxLimit)

\* LIMIT takes a nonnegative integer; anything else is a syntax error.
LimitAccepted(n) == n.k = "int" /\ n.v >= 0

\* The columns the history query selects (req: the request that wrote the row).
HistoryColumns(h) ==
    [employee_id |-> h.employee_id, latitude |-> h.latitude, longitude |-> h.longitude,
     gps_status |-> h.gps_status, recorded_at |-> h.recorded_at, req |-> h.req]

Min(a, b) == IF a < b THEN a ELSE b

\* Lines 234-241: the rows WHERE employee_id = id ORDER BY recorded_at DESC
\* LIMIT n.  Rows of equal recorded_at come in an order SQL leaves open, so
\* this is the set of the results the query can give.
HistoryResults(id, n) ==
    LET match == IF id.k = "int"
                 THEN { h \in employee_location_history : h.employee_id = id.v }
                 ELSE {}
        k == Cardinality(match)
        orders == { f \in [1..k -> match] :
                      /\ \A i, j \in 1..k : i # j => f[i] # f[j]
                      /\ \A i, j \in 1..k : i < j => f[i].recorded_at >= f[j].recorded_at }
    IN { [i \in 1..Min(n, k) |-> HistoryColumns(f[i])] : f \in orders }

\* Lines 225-247.
GetHistory(p, q) ==
    /\ queries < MaxQueries
    /\ queries' = queries + 1
    /\ LET employee_id == Number(p)
           limit == historyLimit(q)
           answer(st, qd, rows) ==
               [status |-> st, queried |-> qd, param |-> p, limitParam |-> q,
                limit |-> limit, rows |-> rows]
       IN IF ~TruthyNum(employee_id)
          THEN histResp' = answer(400, FALSE, <<>>)
          ELSE /\ CheckedOut < ConnLimit
               /\ \/ /\ LimitAccepted(limit)
                     /\ \E rows \in HistoryResults(employee_id, limit.v) :
                            histResp' = answer(200, TRUE, rows)
                  \/ histResp' = answer(500, TRUE, <<>>)
    /\ UNCHANGED <<now, reqVars, poolVars, dbVars, wsVars, listResp, schemaVars>>

\* The columns of v_employee_latest (req: the request that wrote the row).
LatestColumns(l) == l

\* Lines 192-202.
GetLocations ==
    /\ queries < MaxQueries
    /\ queries' = queries + 1
    /\ CheckedOut < ConnLimit
    /\ \/ listResp' = [status |-> 200,
                       rows |-> { LatestColumns(l) : l \in employee_live_location }]
       \/ listResp' = [status |-> 500, rows |-> {}]
    /\ UNCHANGED <<now, reqVars, poolVars, dbVars, wsVars, histResp, schemaVars>>

\* -------------------------------------------------------------- clock
\* ------------------------------------------------------ ensureSchema
\* db.js line 16: the pool hands ensureSchema a connection.
EnsureSchemaGetConnection ==
    /\ schemaPc = "getConnection"
    /\ CheckedOut < ConnLimit
    /\ schemaHeld' = TRUE
    /\ schemaPc' = "setMode"
    /\ UNCHANGED <<now, reqVars, poolVars, dbVars, wsVars, queryVars, tables,
                   schemaReleased>>

\* db.js line 16 rejects, outside the try block: ensureSchema and the listen
\* callback reject, nothing was acquired and nothing is released.
EnsureSchemaGetConnectionFail ==
    /\ schemaPc = "getConnection"
    /\ schemaPc' = "rejected"
    /\ UNCHANGED <<now, reqVars, poolVars, dbVars, wsVars, queryVars, tables,
                   schemaHeld, schemaReleased>>

\* db.js line 18.
SetSqlMode ==
    /\ schemaPc = "setMode"
    /\ schemaPc' = "createLive"
    /\ UNCHANGED <<now, reqVars, poolVars, dbVars, wsVars, queryVars, tables,
                   schemaHeld, schemaReleased>>

\* db.js lines 20-32: CREATE TABLE IF NOT EXISTS employee_live_location.
CreateLiveTable ==
    /\ schemaPc = "createLive"
    /\ tables' = tables \cup {"employee_live_location"}
    /\ schemaPc' = "createHistory"
    /\ UNCHANGED <<now, reqVars, poolVars, dbVars, wsVars, queryVars,
                   schemaHeld, schemaReleased>>

\* db.js lines 34-45: CREATE TABLE IF NOT EXISTS employee_location_history.
CreateHistoryTable ==
    /\ schemaPc = "createHistory"
    /\ tables' = tables \cup {"employee_location_history"}
    /\ schemaPc' = "createView"
    /\ UNCHANGED <<now, reqVars, poolVars, dbVars, wsVars, queryVars,
                   schemaHeld, schemaReleased>>

\* The finally block of ensureSchema (db.js lines 52-54) without its
\* conn.release().
EnsureSchemaRelease_leak ==
    /\ UNCHANGED <<schemaHeld, schemaReleased>>

\* db.js lines 52-54: the finally block gives the connection back.
EnsureSchemaRelease ==
    /\ schemaHeld' = FALSE
    /\ schemaReleased' = schemaReleased + 1

\* db.js lines 47-54: CREATE OR REPLACE VIEW v_employee_latest, then the
\* finally block; ensureSchema returns.
CreateView ==
    /\ schemaPc = "createView"
    /\ tables' = tables \cup {"v_employee_latest"}
    /\ EnsureSchemaRelease
    /\ schemaPc' = "done"
    /\ UNCHANGED <<now, reqVars, poolVars, dbVars, wsVars, queryVars>>

\* A statement of db.js lines 18-51 throws: the finally block runs and
\* ensureSchema rejects; the server goes on listening.
EnsureSchemaFail ==
    /\ schemaPc \in {"setMode", "createLive", "createHistory", "createView"}
    /\ EnsureSchemaRelease
    /\ schemaPc' = "rejected"
    /\ UNCHANGED <<now, reqVars, poolVars, dbVars, wsVars, queryVars, tables>>

\* Lines 146-151 throw because employee_live_location does not exist.
UpsertLiveNoTable(r) ==
    /\ "employee_live_location" \notin tables
    /\ Throw(r, "upsert")
    /\ noTable' = noTable \cup {r}
    /\ UNCHANGED <<now, body, startedAfter, resp, poolVars, dbVars, wsVars,
                   queryVars, schemaVars>>

\* Lines 154-158 throw because employee_location_history does not exist.
InsertHistoryNoTable(r) ==
    /\ "employee_location_history" \notin tables
    /\ Throw(r, "insert")
    /\ noTable' = noTable \cup {r}
    /\ UNCHANGED <<now, body, startedAfter, resp, poolVars, dbVars, wsVars,
                   queryVars, schemaVars>>

\* The clock advances by one second.
Tick ==
    /\ now < MaxClock
    /\ now' = now + 1
    /\ UNCHANGED <<reqVars, poolVars, dbVars, wsVars, queryVars, schemaVars>>

\* --------------------------------------------------------------- next
\* The steps of POST /api/location when no call to the store throws.
Ingest ==
    \E r \in Reqs :
        \/ \E b \in Bodies : PostLocation(r, b)
        \/ GetConnection(r)
        \/ BeginTransaction(r)
        \/ UpsertLive(r)
        \/ InsertHistory(r)
        \/ Commit(r)
        \/ Respond(r)

\* The steps a storage failure adds.
IngestFailure ==
    \E r \in Reqs :
        \/ GetConnectionFail(r)
        \/ BeginTransactionFail(r)
        \/ UpsertLiveFail(r)
        \/ InsertHistoryFail(r)
        \/ CommitFail(r)
        \/ Rollback(r)
        \/ RollbackFail(r)

Observers == \E s \in Sockets : Connect(s) \/ Break(s) \/ Close(s)

Queries ==
    \/ \E p \in IdParams, q \in LimitParams : GetHistory(p, q)
    \/ GetLocations

Next == Ingest \/ IngestFailure \/ Observers \/ Tick

Spec == Init /\ [][Next]_vars

\* The server with its read endpoints in use, its store answering every call
\* of the ingestion and no observer connected.
NextQ == Ingest \/ Queries \/ Tick

SpecQ == Init /\ [][NextQ]_vars

\* The server from the moment it listens: ensureSchema runs beside the
\* handlers of POST /api/location, and every call of the store may throw.
EnsureSchema ==
    \/ EnsureSchemaGetConnection
    \/ SetSqlMode
    \/ CreateLiveTable
    \/ CreateHistoryTable
    \/ CreateView

EnsureSchemaFailure ==
    \/ EnsureSchemaGetConnectionFail
    \/ EnsureSchemaFail

MissingTable == \E r \in Reqs : UpsertLiveNoTable(r) \/ InsertHistoryNoTable(r)

NextS == Ingest \/ IngestFailure \/ EnsureSchema \/ EnsureSchemaFailure \/ MissingTable

SpecS == InitListen /\ [][NextS]_vars

\* ================================================================ claims
LiveVisible(r) == \E l \in employee_live_location : l.req = r
HistoryVisible(r) == \E h \in employee_location_history : h.req = r
Finished(r) == pc[r] \in {"done", "rejected"}
PublishedReqs == { published[i].req : i \in DOMAIN published }
\* The requests a location message of inbox[s] was broadcast for, in order.
EventsOf(s) ==
    LET loc == SelectSeq(inbox[s], LAMBDA m : m.type = "location")
    IN [i \in DOMAIN loc |-> loc[i].payload.req]

\* C1 (state): a current-position row readers see has the history record of
\* the same report, with the same values, beside it; a worker with a visible
\* history record has a visible current-position row; a report whose
\* transaction failed at begin, upsert or history insert is visible in
\* neither table.
C1_BothOrNeither ==
    /\ \A l \in employee_live_location :
          \E h \in employee_location_history :
              /\ h.req = l.req /\ h.employee_id = l.employee_id
              /\ h.latitude = l.latitude /\ h.longitude = l.longitude
              /\ h.gps_status = l.gps_status
    /\ \A h \in employee_location_history :
          \E l \in employee_live_location : l.employee_id = h.employee_id
    /\ \A r \in Reqs :
          failedAt[r] \in {"beginTransaction", "upsert", "insert"}
              => ~LiveVisible(r) /\ ~HistoryVisible(r)

\* C1 (step): in every step, the history record of a report becomes visible
\* exactly when its current-position upsert does, and a step of a report
\* whose history insert failed leaves both tables as they were.
C1_SameStep ==
    \A r \in Reqs :
        /\ (HistoryVisible(r)' /\ ~HistoryVisible(r))
              <=> (LiveVisible(r)' /\ ~LiveVisible(r))
        /\ (failedAt[r] = "insert" /\ pc'[r] # pc[r])
              => UNCHANGED <<employee_live_location, employee_location_history>>

\* C1: for every POST /api/location, readers see both of its writes or neither.
C1_Atomicity == [](C1_BothOrNeither) /\ [][C1_SameStep]_vars

\* A report whose history insert failed after its upsert has been answered,
\* while the worker's row holds the differing values of an earlier report.
C1_Witness ==
    \E r \in Reqs :
        /\ failedAt[r] = "insert" /\ pc[r] = "done" /\ resp[r] = 500
        /\ \E l \in employee_live_location :
              /\ l.employee_id = body[r].employee_id
              /\ l.req # r
              /\ l.gps_status # body[r].gps_status

\* C2: every location event, broadcast or received, is of a report whose
\* writes are committed, and a report one of whose transaction steps failed
\* has no event.
C2_BroadcastAfterCommit ==
    /\ \A r \in PublishedReqs : HistoryVisible(r)
    /\ \A s \in Sockets : \A i \in DOMAIN EventsOf(s) :
          /\ HistoryVisible(EventsOf(s)[i])
          /\ EventsOf(s)[i] \in PublishedReqs
    /\ \A r \in Reqs :
          failedAt[r] # "none"
              => /\ r \notin PublishedReqs
                 /\ \A s \in Sockets : \A i \in DOMAIN EventsOf(s) : EventsOf(s)[i] # r

\* A report whose commit failed has been answered 500 and an observer that has
\* received the event of another report has none of it.
C2_Witness ==
    \E r, r2 \in Reqs : \E s \in Sockets :
        /\ failedAt[r] = "commit" /\ resp[r] = 500
        /\ resp[r2] = 200
        /\ sock[s] = "open"
        /\ EventsOf(s) = <<r2>>

\* The report of employee e whose commit the server applied last.
LatestOf(e) ==
    LET idx == { i \in DOMAIN commitOrder : body[commitOrder[i]].employee_id = e }
    IN IF idx = {} THEN NoReq
       ELSE commitOrder[CHOOSE i \in idx : \A j \in idx : j <= i]

\* A stored row carries the values of report r (at the precision of the store).
RowOf(row, r) ==
    /\ row.employee_id = body[r].employee_id
    /\ row.latitude = Decimal6(body[r].latitude)
    /\ row.longitude = Decimal6(body[r].longitude)
    /\ row.gps_status = body[r].gps_status

\* C3: once a report was answered 200 and is its worker's latest committed
\* report, GET /api/locations holds exactly one row of the worker, with the
\* report's values, and every answer of the history query with a limit of at
\* least 1 has a record with the report's values as its first entry.
C3_ReadAfterSubmit ==
    \A r \in Reqs :
        (resp[r] = 200 /\ LatestOf(body[r].employee_id) = r)
            => /\ \E l \in employee_live_location : RowOf(LatestColumns(l), r)
               /\ \A l \in employee_live_location :
                     l.employee_id = body[r].employee_id => RowOf(LatestColumns(l), r)
               /\ \A n \in {1, 2, MaxLimit} :
                     \A rows \in HistoryResults(Num("int", body[r].employee_id), n) :
                         Len(rows) >= 1 /\ RowOf(rows[1], r)

\* A report the validation must reject.
InvalidReport(b) ==
    \/ b.latitude < LatMin \/ b.latitude > LatMax
    \/ b.longitude < LonMin \/ b.longitude > LonMax
    \/ b.employee_id < 1
    \/ b.gps_status \notin {"on", "off"}

\* C4 (state): a request with an invalid report has been answered 400 and has
\* left nothing behind: no connection, transaction, lock, row or event.
C4_Rejected ==
    \A r \in Reqs :
        (pc[r] # "idle" /\ InvalidReport(body[r]))
            => /\ resp[r] = 400 /\ pc[r] = "done" /\ failedAt[r] = "none"
               /\ r \notin held /\ released[r] = 0
               /\ tx[r] = NoTx /\ \A e \in Employees : lock[e] # r
               /\ ~LiveVisible(r) /\ ~HistoryVisible(r)
               /\ r \notin PublishedReqs

\* C4 (step): the step that takes an invalid report changes neither the
\* tables, nor the pool, nor anything of the observers.
C4_NoSideEffect ==
    \A r \in Reqs :
        (pc[r] = "idle" /\ pc'[r] # "idle" /\ InvalidReport(body'[r]))
            => UNCHANGED <<poolVars, dbVars, wsVars>>

\* C4: a report with latitude or longitude out of range, employee_id < 1 or a
\* gps_status other than on/off is answered 400 without side effects.
C4_ValidationShortCircuits == [](C4_Rejected) /\ [][C4_NoSideEffect]_vars

\* A report with latitude above 90 was answered 400 while the tables hold
\* the rows of an accepted report.
C4_Witness ==
    \E r \in Reqs :
        /\ body[r].latitude > LatMax /\ resp[r] = 400
        /\ employee_live_location # {} /\ employee_location_history # {}

CountIn(seq, m) == Cardinality({ i \in DOMAIN seq : seq[i] = m })

\* C5: every client of a broadcast whose connection was not broken has the
\* event, whatever happened to the sends to the others, and the handler of
\* every broadcast report has answered 200 without an exception.
C5_FanOutIsolation ==
    \A i \in DOMAIN published :
        LET p == published[i] IN
        /\ \A s \in p.targets \ p.broken : CountIn(inbox[s], LocationMsg(p.payload)) >= 1
        /\ resp[p.req] = 200 /\ failedAt[p.req] = "none"

\* Two broadcasts, each with a broken client ahead of a healthy one in
\* wss.clients.
C5_Witness ==
    /\ Len(published) = 2
    /\ \E s, b \in Sockets :
          /\ b < s
          /\ \A i \in {1, 2} :
                /\ b \in published[i].broken
                /\ s \in published[i].targets \ published[i].broken

\* C6: a socket on which a send has thrown is no longer in wss.clients, and
\* no later broadcast calls send on it.
C6_FailedObserverEvicted ==
    /\ \A s \in sendFailed : s \notin Range(clients)
    /\ \A i, j \in DOMAIN published :
          i < j => published[i].failed \cap published[j].attempted = {}

PubIndex(r) == CHOOSE i \in DOMAIN published : published[i].req = r

\* C7: every socket receives its location events in the order of the calls
\* of broadcast.
C7_PublishOrder ==
    \A s \in Sockets :
        \A i, j \in DOMAIN EventsOf(s) :
            /\ EventsOf(s)[i] \in PublishedReqs
            /\ i < j => PubIndex(EventsOf(s)[i]) < PubIndex(EventsOf(s)[j])

\* Two handlers ran concurrently, the one that committed second broadcast
\* first, and a socket received both events.
C7_Witness ==
    /\ commitOrder = <<1, 2>>
    /\ Len(published) = 2 /\ published[1].req = 2
    /\ \E s \in Sockets : Len(EventsOf(s)) = 2

\* C8: a report answered 200 was broadcast exactly once; a broadcast calls
\* send once on every client of wss.clients, with the values of the report,
\* and every client that took the send holds the message exactly once; no
\* report is broadcast twice.
C8_OneBroadcastPerAccepted ==
    /\ \A r \in Reqs :
          /\ Cardinality({ i \in DOMAIN published : published[i].req = r }) <= 1
          /\ resp[r] = 200 => r \in PublishedReqs
    /\ \A i \in DOMAIN published :
          LET p == published[i] IN
          /\ p.attempted = p.targets
          /\ p.payload.employee_id = body[p.req].employee_id
          /\ p.payload.latitude = body[p.req].latitude
          /\ p.payload.longitude = body[p.req].longitude
          /\ p.payload.gps_status = body[p.req].gps_status
          /\ \A s \in p.targets \ p.broken : CountIn(inbox[s], LocationMsg(p.payload)) = 1
          /\ \A s \in Sockets \ p.targets : CountIn(inbox[s], LocationMsg(p.payload)) = 0

\* A report was answered 200 with two sockets connected, both of which hold
\* its event.
C8_Witness ==
    \E i \in DOMAIN published :
        /\ resp[published[i].req] = 200
        /\ published[i].targets = Sockets /\ published[i].broken = {}

\* C9: a validated request that met a storage failure and whose handler has
\* ended was answered 500.
C9_StorageFailureAnswered ==
    \A r \in Reqs :
        (failedAt[r] # "none" /\ Finished(r)) => resp[r] = 500

\* C10: the limit of a history query is an integer of 1..5000, 500 when the
\* caller gave none, and the answer holds at most 5000 records.
C10_LimitClamped ==
    histResp.queried
        => /\ histResp.limit.k = "int"
           /\ histResp.limit.v >= 1 /\ histResp.limit.v <= MaxLimit
           /\ histResp.limitParam.k = "absent" => histResp.limit.v = DefaultLimit
           /\ Len(histResp.rows) <= MaxLimit


\* A path parameter that is the decimal text of a positive integer.
PositiveInteger(p) == p.k = "int" /\ p.v >= 1

\* C11: a history request whose employee_id is not a positive integer (zero,
\* negative, fractional or non-numeric) is answered 400 and the store is not
\* queried for it.
C11_IdValidated ==
    (histResp.status # NoResponse /\ ~PositiveInteger(histResp.param))
        => histResp.status = 400 /\ ~histResp.queried

\* C12: in an answer of the history endpoint, the record of a report that
\* was submitted after another report of the worker had been answered 200
\* comes before the record of that other report.
C12_NewestFirst ==
    histResp.status = 200
        => \A i, j \in DOMAIN histResp.rows :
               histResp.rows[i].req \in startedAfter[histResp.rows[j].req] => j < i

\* C13: the last_update of a current-position row equals the recorded_at of
\* the history record the same transaction wrote.
C13_OneTimestamp ==
    \A l \in employee_live_location, h \in employee_location_history :
        l.req = h.req => l.last_update = h.recorded_at


\* Every handler of POST /api/location that has started has ended, and so
\* has ensureSchema.
AllEnded ==
    /\ \A r \in Reqs : pc[r] \in {"idle", "done", "rejected"}
    /\ schemaPc \in {"done", "rejected"}

\* The handler of r was handed a connection.
Acquired(r) == locationSchema(body[r]) /\ pc[r] \notin {"idle", "getConnection"}
                   /\ failedAt[r] # "getConnection"

\* C14: an ingestion and ensureSchema release the connection they were handed
\* exactly once, whichever way they end (200, 400, a statement, the commit or
\* the rollback throwing): no connection is released twice or released
\* without having been handed out, a handler that has ended holds none, and
\* when every operation has ended no connection is checked out.
C14_ConnectionsBalanced ==
    /\ \A r \in Reqs :
          /\ released[r] <= 1
          /\ r \in held => Acquired(r) /\ released[r] = 0 /\ ~Finished(r)
          /\ released[r] = 1 => Acquired(r) /\ r \notin held
          /\ Finished(r) => r \notin held /\ (Acquired(r) => released[r] = 1)
    /\ schemaReleased <= 1
    /\ schemaHeld => schemaReleased = 0 /\ schemaPc \notin {"getConnection", "done", "rejected"}
    /\ schemaReleased = 1 => ~schemaHeld
    /\ schemaPc = "done" => ~schemaHeld /\ schemaReleased = 1
    /\ schemaPc = "rejected" => ~schemaHeld
    /\ AllEnded => CheckedOut = 0

\* ensureSchema has returned, one report was answered 200, the rollback of
\* another threw, each has released its connection and none is checked out.
C14_Witness ==
    /\ AllEnded /\ CheckedOut = 0
    /\ schemaPc = "done" /\ schemaReleased = 1
    /\ \E r1, r2 \in Reqs :
          /\ resp[r1] = 200 /\ released[r1] = 1
          /\ pc[r2] = "rejected" /\ failedAt[r2] \in {"upsert", "insert", "commit"}
          /\ released[r2] = 1


\* C15: a worker has at most one current-position row; the row carries every
\* field of the worker's report whose commit was applied last and was written
\* whole by that report; every report whose commit was applied has exactly
\* one history record, with its values.
C15_LastCommittedWins ==
    /\ \A e \in Employees :
          /\ Cardinality({ l \in employee_live_location : l.employee_id = e }) <= 1
          /\ LatestOf(e) # NoReq => \E l \in employee_live_location : l.employee_id = e
          /\ \A l \in employee_live_location :
                l.employee_id = e => l.req = LatestOf(e) /\ RowOf(l, LatestOf(e))
    /\ \A r \in Range(commitOrder) :
          /\ Cardinality({ h \in employee_location_history : h.req = r }) = 1
          /\ \A h \in employee_location_history : h.req = r => RowOf(h, r)

\* Two reports of one worker with different statuses were handled
\* concurrently and both answered 200; the one that arrived first committed
\* last.
C15_Witness ==
    /\ resp[1] = 200 /\ resp[2] = 200
    /\ body[1].employee_id = body[2].employee_id
    /\ body[1].gps_status # body[2].gps_status
    /\ startedAfter[2] = {}
    /\ commitOrder = <<2, 1>>


\* C16: a socket that has connected was sent the greeting, the greeting is
\* the first message it was sent and the only greeting, and a socket that has
\* not connected was sent nothing.
C16_HelloFirst ==
    \A s \in Sockets :
        IF sock[s] = "new"
        THEN inbox[s] = <<>>
        ELSE /\ Len(inbox[s]) >= 1
             /\ inbox[s][1].type = "hello" /\ inbox[s][1].payload = NoPayload
             /\ \A i \in 2..Len(inbox[s]) : inbox[s][i].type = "location"

\* A socket connected after a first report had been broadcast and holds the
\* greeting followed by the event of a second report.
C16_Witness ==
    \E s \in Sockets :
        /\ Len(published) = 2
        /\ s \notin published[1].targets /\ s \in published[2].targets
        /\ Len(inbox[s]) = 2
        /\ inbox[s][1].type = "hello" /\ inbox[s][2].type = "location"


\* The number of 10^-7 degree a DECIMAL(10,6) value stands for.
Degrees7(d) == d * 10
\* The milliseconds since the epoch a TIMESTAMP value stands for.
Millis(t) == t * 1000

\* C17: the payload broadcast (and returned) for a report equals, field by
\* field, the current-position row the report's transaction committed:
\* worker, latitude, longitude, status and timestamp.
C17_EventIsCommittedRow ==
    \A i \in DOMAIN published :
        \A l \in employee_live_location :
            l.req = published[i].req
                => LET p == published[i].payload IN
                   /\ p.employee_id = l.employee_id
                   /\ p.latitude = Degrees7(l.latitude)
                   /\ p.longitude = Degrees7(l.longitude)
                   /\ p.gps_status = l.gps_status
                   /\ p.last_update = Millis(l.last_update)


\* The reports of worker e whose commit the server applied.
CommittedReports(e) ==
    { i \in DOMAIN commitOrder : body[commitOrder[i]].employee_id = e }

\* C18 (state): a worker has as many history records as reports whose commit
\* was applied.
C18_HistoryComplete ==
    \A e \in Employees :
        Cardinality({ h \in employee_location_history : h.employee_id = e })
            = Cardinality(CommittedReports(e))

\* C18 (step): no step changes or removes a history record.
C18_HistoryKept == employee_location_history \subseteq employee_location_history'

\* C18: history is complete and append-only.
C18_AppendOnly == [](C18_HistoryComplete) /\ [][C18_HistoryKept]_vars

\* Two reports of one worker with the same values were committed within one
\* second, and history holds two records that differ in nothing but their id.
C18_Witness ==
    \E h1, h2 \in employee_location_history :
        /\ h1.req # h2.req
        /\ h1.employee_id = h2.employee_id /\ h1.gps_status = h2.gps_status
        /\ h1.latitude = h2.latitude /\ h1.longitude = h2.longitude
        /\ h1.recorded_at = h2.recorded_at
        /\ Len(commitOrder) = 2


CommitIndex(r) == CHOOSE i \in DOMAIN commitOrder : commitOrder[i] = r

\* The location messages socket s was sent for worker e, in order.
EventsFor(s, e) ==
    SelectSeq(inbox[s], LAMBDA m : m.type = "location" /\ m.payload.employee_id = e)

\* C19: the events of a worker's reports are broadcast in the order in which
\* the reports' transactions committed; and once every handler has ended, the
\* last event of a worker held by a socket that was a healthy client of every
\* broadcast carries the values of the worker's current-position row, when
\* every committed report was broadcast.
C19_BroadcastInCommitOrder ==
    /\ \A i, j \in DOMAIN published :
          (i < j /\ published[i].payload.employee_id = published[j].payload.employee_id)
              => CommitIndex(published[i].req) < CommitIndex(published[j].req)
    /\ ((\A r \in Reqs : pc[r] \in {"idle", "done", "rejected"})
            /\ Range(commitOrder) \subseteq PublishedReqs)
          => \A s \in Sockets, e \in Employees :
                ((\A i \in DOMAIN published :
                      s \in published[i].targets \ published[i].broken)
                    /\ EventsFor(s, e) # <<>>)
                  => LET last == EventsFor(s, e)[Len(EventsFor(s, e))].payload
                     IN \E l \in employee_live_location :
                            /\ l.employee_id = e
                            /\ l.latitude = Decimal6(last.latitude)
                            /\ l.longitude = Decimal6(last.longitude)
                            /\ l.gps_status = last.gps_status


\* The steps of the handler of POST /api/location at which a statement on
\* the tables is about to be sent or has been sent.
AtStore(r) == pc[r] \in {"upsert", "insert", "commit", "respond", "rollback"}

\* C20: no handler of POST /api/location is at a statement on the tables
\* before ensureSchema has returned, and no statement of a handler fails
\* because its table does not exist.
C20_SchemaBeforeRequests ==
    /\ \A r \in Reqs : (AtStore(r) /\ failedAt[r] = "none") => schemaPc = "done"
    /\ noTable = {}

=============================================================================
